---- MODULE Spec2Model ----
(***************************************************************************)
(* The agent tool-execution loop of ZeptoBot (src-tauri/src/services/      *)
(* agent.rs) and the Tauri command that drives it (src-tauri/src/          *)
(* commands.rs), as a state machine.                                       *)
(*                                                                         *)
(* Every invocation of the send_message command is a call p.  A call owns  *)
(* its own local `messages` vector: chat() builds it from the system       *)
(* prompt and the user message, and nothing outlives the call.  After the  *)
(* call has returned, messages[p] keeps the value the local had at the     *)
(* return, so that the final history can be inspected; no action reads it. *)
(***************************************************************************)
EXTENDS Integers, Sequences, FiniteSets, TLC

(***************************************************************************)
(* Bounds of the model.                                                    *)
(***************************************************************************)
\* send_message invocations of a multi-turn run (SpecTurns)
MaxChats == 2
\* tool calls carried by one provider response
MaxCallsPerRound == 2
\* departures from the plain run that the provider and the handlers may
\* choose in one run (see Cost and DefaultOutcome)
MaxOdd == 2
\* rounds of a call, counted from its first, in which they may depart from it
MaxOddRounds == 2

Calls == 1..MaxChats

(***************************************************************************)
(* Program constants.                                                      *)
(***************************************************************************)
MAX_ITERATIONS == 10

SYSTEM_PROMPT == "You are ZeptoBot, a helpful AI assistant that can control the user's Mac computer."

CapText == "I've completed the requested actions."

\* all_automation_tools(): the registry, in registration order
tools == <<"move_mouse", "click", "type_text", "screen_info", "key_press">>

(***************************************************************************)
(* serde_json::Value, as far as the loop looks at it, and Option.          *)
(***************************************************************************)
Null == [kind |-> "null"]

None == <<>>
Some(x) == <<x>>

ArgsXY == "{\"x\":100,\"y\":200}"
ArgsGarbage == "x=100, y=200"

\* serde_json::from_str(text).unwrap_or(Value::Null)
ParseArguments(text) ==
    IF text = ArgsXY THEN [kind |-> "object", x |-> 100, y |-> 200]
    ELSE Null

(***************************************************************************)
(* zeptoclaw::session::Message and ToolCall, as the loop builds them.      *)
(***************************************************************************)
ToolCall(id, name, arguments) ==
    [id |-> id, name |-> name, arguments |-> arguments]

MessageSystem(content) ==
    [role |-> "system", content |-> content, tool_calls |-> <<>>, tool_call_id |-> None]

MessageUser(content) ==
    [role |-> "user", content |-> content, tool_calls |-> <<>>, tool_call_id |-> None]

MessageAssistantWithTools(content, calls) ==
    [role |-> "assistant", content |-> content, tool_calls |-> calls, tool_call_id |-> None]

MessageToolResult(id, content) ==
    [role |-> "tool", content |-> content, tool_calls |-> <<>>, tool_call_id |-> Some(id)]

\* tool_defs: one ToolDefinition per registered tool, in registry order
ToolDefinitions == [i \in DOMAIN tools |-> [name |-> tools[i]]]

(***************************************************************************)
(* The environment: what the user, the provider and the handlers may do.   *)
(***************************************************************************)
UserMessages == {"move the mouse to 100,200", "hi"}

CallIds == <<"call_1", "call_2", "call_3">>

RequestedNames == {"move_mouse", "does_not_exist"}

ArgTexts == {ArgsXY, ArgsGarbage}

\* the j-th tool call of a response carries the id CallIds[j]
ToolCallLists ==
    UNION { { s \in [1..n -> [name : RequestedNames, arguments : ArgTexts]] : TRUE }
            : n \in 1..MaxCallsPerRound }

WithIds(s) == [j \in DOMAIN s |-> ToolCall(CallIds[j], s[j].name, s[j].arguments)]

TextContents == {"Done, I moved the mouse.", ""}

PartialContents == {"", "Moving the mouse now."}

TextResponses == [content : TextContents, tool_calls : {<<>>}]

ToolResponses ==
    { [content |-> c, tool_calls |-> WithIds(s)] : c \in PartialContents, s \in ToolCallLists }

\* The plain tool-bearing response carries one well-formed move_mouse call
\* and no text.  Every departure from it costs one unit of the run's budget:
\* a further call, a call with another name or other arguments, a text.
Cost(r) ==
    (Len(r.tool_calls) - 1)
    + Cardinality({ j \in DOMAIN r.tool_calls :
                      \/ r.tool_calls[j].name # "move_mouse"
                      \/ r.tool_calls[j].arguments # ArgsXY })
    + (IF r.content = "" THEN 0 ELSE 1)

ProviderErrors == {"rate limited"}

\* Tool::execute -> ZeptoResult<ToolOutput>
OutcomeOk(for_llm, is_error) ==
    [ok |-> TRUE, for_llm |-> for_llm, is_error |-> is_error, err |-> ""]

OutcomeErr(e) ==
    [ok |-> FALSE, for_llm |-> "", is_error |-> TRUE, err |-> e]

DefaultOutcome == OutcomeOk("Mouse moved to (100, 200)", FALSE)

Outcomes ==
    { DefaultOutcome,
      OutcomeOk("Missing or invalid 'x' parameter", TRUE),
      OutcomeErr("device unavailable") }

(***************************************************************************)
(* State.                                                                  *)
(***************************************************************************)
VARIABLES
    pc,            \* where each call is: idle, loop, awaiting, tools, executing,
                   \* done, cap, failed, panicked
    messages,      \* the local `messages` of each call
    iter,          \* rounds of the for loop completed
    response,      \* the provider response being processed
    tcIndex,       \* index of the tool call of `response` being processed
    result,        \* what chat returned: None, or Some([ok, text])
    sent,          \* history: the `messages.clone()` handed to the provider
    sentDefs,      \* history: the tool_defs handed to the provider
    received,      \* history: the provider's answers to this call, in order
    executed,      \* history: handler invocations [id, name, args], in order
    outcomes,      \* history: what those invocations returned, in order
    oddLeft,       \* non-plain responses and outcomes the environment may still choose
    unsent,        \* invocations the frontend has not issued yet
    returned,      \* history: the calls that have returned, in the order they did
    earlier,       \* history: the calls that had returned when each call was issued
    cleared,       \* history: the calls issued directly after a clear_history
    request,       \* the automation invocation: which handler, with which arguments
    device,        \* the mouse and keyboard actions that invocation performed, in order
    reply          \* what that invocation returned, None while it has not run

vars == <<pc, messages, iter, response, tcIndex, result, sent, sentDefs,
          received, executed, outcomes, oddLeft, unsent, returned, earlier, cleared,
          request, device, reply>>

NoResponse == [content |-> "", tool_calls |-> <<>>]

InFlight == {"loop", "awaiting", "tools", "executing"}
Terminal == {"done", "cap", "failed"}
\* inside the inner for loop: the round's tool messages are not all pushed
MidRound == {"tools", "executing", "panicked"}

Fresh ==
    /\ pc = [p \in Calls |-> "idle"]
    /\ messages = [p \in Calls |-> <<>>]
    /\ iter = [p \in Calls |-> 0]
    /\ response = [p \in Calls |-> NoResponse]
    /\ tcIndex = [p \in Calls |-> 0]
    /\ result = [p \in Calls |-> None]
    /\ sent = [p \in Calls |-> <<>>]
    /\ sentDefs = [p \in Calls |-> <<>>]
    /\ received = [p \in Calls |-> <<>>]
    /\ executed = [p \in Calls |-> <<>>]
    /\ outcomes = [p \in Calls |-> <<>>]
    /\ returned = <<>>
    /\ earlier = [p \in Calls |-> <<>>]
    /\ cleared = {}
    /\ device = <<>>
    /\ reply = None

\* one invocation of send_message, against any provider and any handlers
Init ==
    /\ Fresh
    /\ request = None
    /\ oddLeft = MaxOdd
    /\ unsent = {1}

\* one invocation, against a provider and handlers that depart from the plain
\* run at most once
InitLive ==
    /\ Fresh
    /\ request = None
    /\ oddLeft = 1
    /\ unsent = {1}

\* MaxChats invocations, which may overlap, against a plain provider
InitTurns ==
    /\ Fresh
    /\ request = None
    /\ oddLeft = 0
    /\ unsent = Calls

(***************************************************************************)
(* Pure parts of AgentService::chat.                                       *)
(***************************************************************************)
OkResult(text) == Some([ok |-> TRUE, text |-> text])

ErrResult(text) == Some([ok |-> FALSE, text |-> text])

\* a loop that runs one round too many (0..=MAX_ITERATIONS)
LoopContinuesInclusive(i) == i <= MAX_ITERATIONS

\* a loop that stops one round early
LoopContinuesShort(i) == i < MAX_ITERATIONS - 1

\* for _ in 0..MAX_ITERATIONS: the body runs again after i completed rounds
LoopContinues(i) == i < MAX_ITERATIONS

\* response.has_tool_calls()
HasToolCalls(r) == Len(r.tool_calls) > 0

\* .map_err(|e| format!("LLM error: {e}"))
LlmErrorText(e) == "LLM error: " \o e

\* response.tool_calls.iter().map(|tc| ToolCall::new(&tc.id, &tc.name, &tc.arguments))
SessionToolCalls(r) ==
    [j \in DOMAIN r.tool_calls |->
        ToolCall(r.tool_calls[j].id, r.tool_calls[j].name, r.tool_calls[j].arguments)]

\* a lookup that falls back to the first tool when no name matches
FindToolDefaulting(name) ==
    IF \E i \in DOMAIN tools : tools[i] = name
    THEN Some(CHOOSE i \in DOMAIN tools : tools[i] = name)
    ELSE Some(1)

\* self.tools.iter().find(|t| t.name() == tc.name)
FindTool(name) ==
    IF \E i \in DOMAIN tools : tools[i] = name
    THEN Some(CHOOSE i \in DOMAIN tools :
                 /\ tools[i] = name
                 /\ \A k \in DOMAIN tools : tools[k] = name => i <= k)
    ELSE None

\* an output flagged as failed that is tagged like a handler error
ToolResultTextTagsFlagged(outcome) ==
    IF outcome.ok
    THEN (IF outcome.is_error THEN "Tool error: " \o outcome.for_llm ELSE outcome.for_llm)
    ELSE "Tool error: " \o outcome.err

\* a handler error passed on without its tag
ToolResultTextBare(outcome) ==
    IF outcome.ok THEN outcome.for_llm ELSE outcome.err

\* match tool.execute(args, &ctx).await { Ok(output) => .., Err(e) => .. }
ToolResultText(outcome) ==
    IF outcome.ok THEN outcome.for_llm ELSE "Tool error: " \o outcome.err

\* format!("Unknown tool: {}", tc.name)
UnknownToolText(name) == "Unknown tool: " \o name

\* a tool message keyed by the call's name instead of its id
ToolResultMessageByName(tc, text) == MessageToolResult(tc.name, text)

\* Message::tool_result(&tc.id, &result)
ToolResultMessage(tc, text) == MessageToolResult(tc.id, text)

\* an inner loop that walks the tool calls from the last to the first
CurrentCallReversed(p) ==
    response[p].tool_calls[Len(response[p].tool_calls) - tcIndex[p] + 1]

\* the tc the inner for loop is at
CurrentCall(p) == response[p].tool_calls[tcIndex[p]]

(***************************************************************************)
(* Actions.                                                                *)
(***************************************************************************)
\* send_message: AgentService::new() and agent.chat(&message), up to the loop.
\* Invocations are numbered in the order they are issued.
send_message(p, m) ==
    /\ p \in unsent
    /\ \A q \in unsent : p <= q
    /\ unsent' = unsent \ {p}
    /\ messages' = [messages EXCEPT ![p] = <<MessageSystem(SYSTEM_PROMPT), MessageUser(m)>>]
    /\ iter' = [iter EXCEPT ![p] = 0]
    /\ pc' = [pc EXCEPT ![p] = "loop"]
    /\ earlier' = [earlier EXCEPT ![p] = returned]
    /\ UNCHANGED <<response, tcIndex, result, sent, sentDefs, received, executed,
                   outcomes, oddLeft, returned, cleared, request, device, reply>>

\* a provider call that is handed the system and user messages only
ProviderCallSendsOpening(p) ==
    /\ pc[p] = "loop"
    /\ LoopContinues(iter[p])
    /\ sent' = [sent EXCEPT ![p] = SubSeq(messages[p], 1, 2)]
    /\ sentDefs' = [sentDefs EXCEPT ![p] = ToolDefinitions]
    /\ pc' = [pc EXCEPT ![p] = "awaiting"]
    /\ UNCHANGED <<messages, iter, response, tcIndex, result, received, executed,
                   outcomes, oddLeft, unsent, returned, earlier, cleared, request, device, reply>>

\* top of the for loop: self.provider.chat(messages.clone(), tool_defs.clone(), ..)
ProviderCall(p) ==
    /\ pc[p] = "loop"
    /\ LoopContinues(iter[p])
    /\ sent' = [sent EXCEPT ![p] = messages[p]]
    /\ sentDefs' = [sentDefs EXCEPT ![p] = ToolDefinitions]
    /\ pc' = [pc EXCEPT ![p] = "awaiting"]
    /\ UNCHANGED <<messages, iter, response, tcIndex, result, received, executed,
                   outcomes, oddLeft, unsent, returned, earlier, cleared, request, device, reply>>

\* a cap exit that also records the completion text in the history
CapReachedPushesText(p) ==
    /\ pc[p] = "loop"
    /\ ~LoopContinues(iter[p])
    /\ messages' = [messages EXCEPT ![p] = Append(@, MessageAssistantWithTools(CapText, <<>>))]
    /\ result' = [result EXCEPT ![p] = OkResult(CapText)]
    /\ pc' = [pc EXCEPT ![p] = "cap"]
    /\ returned' = Append(returned, p)
    /\ UNCHANGED <<iter, response, tcIndex, sent, sentDefs, received,
                   executed, outcomes, oddLeft, unsent, earlier, cleared, request, device, reply>>

\* the for loop is exhausted: Ok("I've completed the requested actions.")
CapReached(p) ==
    /\ pc[p] = "loop"
    /\ ~LoopContinues(iter[p])
    /\ result' = [result EXCEPT ![p] = OkResult(CapText)]
    /\ pc' = [pc EXCEPT ![p] = "cap"]
    /\ returned' = Append(returned, p)
    /\ UNCHANGED <<messages, iter, response, tcIndex, sent, sentDefs, received,
                   executed, outcomes, oddLeft, unsent, earlier, cleared, request, device, reply>>

\* a provider failure after which the same round is tried again
ProviderFailsTriesAgain(p, e) ==
    /\ pc[p] = "awaiting"
    /\ pc' = [pc EXCEPT ![p] = "loop"]
    /\ UNCHANGED <<messages, iter, response, tcIndex, result, sent, sentDefs, received,
                   executed, outcomes, oddLeft, unsent, returned, earlier, cleared,
                   request, device, reply>>

\* a provider failure that is swallowed: the loop goes on to its next round
ProviderFailsRetries(p, e) ==
    /\ pc[p] = "awaiting"
    /\ received' = [received EXCEPT ![p] =
                       Append(@, [ok |-> FALSE, content |-> e, tool_calls |-> <<>>])]
    /\ iter' = [iter EXCEPT ![p] = @ + 1]
    /\ pc' = [pc EXCEPT ![p] = "loop"]
    /\ UNCHANGED <<messages, response, tcIndex, result, sent, sentDefs, executed,
                   outcomes, oddLeft, unsent, returned, earlier, cleared, request, device, reply>>

\* the provider call fails: `?` returns Err("LLM error: ..") from chat
ProviderFails(p, e) ==
    /\ pc[p] = "awaiting"
    /\ received' = [received EXCEPT ![p] =
                       Append(@, [ok |-> FALSE, content |-> e, tool_calls |-> <<>>])]
    /\ result' = [result EXCEPT ![p] = ErrResult(LlmErrorText(e))]
    /\ pc' = [pc EXCEPT ![p] = "failed"]
    /\ returned' = Append(returned, p)
    /\ UNCHANGED <<messages, iter, response, tcIndex, sent, sentDefs, executed,
                   outcomes, oddLeft, unsent, earlier, cleared, request, device, reply>>

\* the provider answers r and r carries no tool call: return Ok(response.content)
ProviderText(p, r) ==
    /\ pc[p] = "awaiting"
    /\ ~HasToolCalls(r)
    /\ received' = [received EXCEPT ![p] =
                       Append(@, [ok |-> TRUE, content |-> r.content, tool_calls |-> <<>>])]
    /\ result' = [result EXCEPT ![p] = OkResult(r.content)]
    /\ pc' = [pc EXCEPT ![p] = "done"]
    /\ returned' = Append(returned, p)
    /\ UNCHANGED <<messages, iter, response, tcIndex, sent, sentDefs, executed,
                   outcomes, oddLeft, unsent, earlier, cleared, request, device, reply>>

\* a tool-bearing response whose content is not empty is taken as the answer
ProviderToolCallsContentFinal(p, r) ==
    /\ pc[p] = "awaiting"
    /\ HasToolCalls(r)
    /\ Cost(r) <= oddLeft
    /\ Cost(r) = 0 \/ iter[p] < MaxOddRounds
    /\ oddLeft' = oddLeft - Cost(r)
    /\ received' = [received EXCEPT ![p] =
                       Append(@, [ok |-> TRUE, content |-> r.content,
                                  tool_calls |-> r.tool_calls])]
    /\ IF r.content # ""
       THEN /\ result' = [result EXCEPT ![p] = OkResult(r.content)]
            /\ pc' = [pc EXCEPT ![p] = "done"]
            /\ returned' = Append(returned, p)
            /\ UNCHANGED <<messages, response, tcIndex>>
       ELSE /\ messages' = [messages EXCEPT ![p] =
                   Append(@, MessageAssistantWithTools(r.content, SessionToolCalls(r)))]
            /\ response' = [response EXCEPT ![p] = r]
            /\ tcIndex' = [tcIndex EXCEPT ![p] = 1]
            /\ pc' = [pc EXCEPT ![p] = "tools"]
            /\ UNCHANGED <<result, returned>>
    /\ UNCHANGED <<iter, sent, sentDefs, executed, outcomes, unsent, earlier, cleared,
                   request, device, reply>>

\* the provider answers r and r carries tool calls: push the assistant message
ProviderToolCalls(p, r) ==
    /\ pc[p] = "awaiting"
    /\ HasToolCalls(r)
    /\ Cost(r) <= oddLeft
    /\ Cost(r) = 0 \/ iter[p] < MaxOddRounds
    /\ oddLeft' = oddLeft - Cost(r)
    /\ received' = [received EXCEPT ![p] =
                       Append(@, [ok |-> TRUE, content |-> r.content,
                                  tool_calls |-> r.tool_calls])]
    /\ messages' = [messages EXCEPT ![p] =
                       Append(@, MessageAssistantWithTools(r.content, SessionToolCalls(r)))]
    /\ response' = [response EXCEPT ![p] = r]
    /\ tcIndex' = [tcIndex EXCEPT ![p] = 1]
    /\ pc' = [pc EXCEPT ![p] = "tools"]
    /\ UNCHANGED <<iter, result, sent, sentDefs, executed, outcomes, unsent,
                   returned, earlier, cleared, request, device, reply>>

\* a tool result that is written over the last message instead of pushed
PushToolResultOverwrites(p, text) ==
    /\ messages' = [messages EXCEPT ![p] =
                       [@ EXCEPT ![Len(@)] = ToolResultMessage(CurrentCall(p), text)]]
    /\ IF tcIndex[p] < Len(response[p].tool_calls)
       THEN /\ tcIndex' = [tcIndex EXCEPT ![p] = @ + 1]
            /\ pc' = [pc EXCEPT ![p] = "tools"]
            /\ UNCHANGED <<iter, response>>
       ELSE /\ tcIndex' = [tcIndex EXCEPT ![p] = 0]
            /\ response' = [response EXCEPT ![p] = NoResponse]
            /\ iter' = [iter EXCEPT ![p] = @ + 1]
            /\ pc' = [pc EXCEPT ![p] = "loop"]

\* messages.push(Message::tool_result(..)) and the step of the inner for loop;
\* after the last tool call of the response the outer loop starts its next round
PushToolResult(p, text) ==
    /\ messages' = [messages EXCEPT ![p] = Append(@, ToolResultMessage(CurrentCall(p), text))]
    /\ IF tcIndex[p] < Len(response[p].tool_calls)
       THEN /\ tcIndex' = [tcIndex EXCEPT ![p] = @ + 1]
            /\ pc' = [pc EXCEPT ![p] = "tools"]
            /\ UNCHANGED <<iter, response>>
       ELSE /\ tcIndex' = [tcIndex EXCEPT ![p] = 0]
            /\ response' = [response EXCEPT ![p] = NoResponse]
            /\ iter' = [iter EXCEPT ![p] = @ + 1]
            /\ pc' = [pc EXCEPT ![p] = "loop"]

\* arguments that do not parse fail the call instead of becoming Value::Null
ToolLookupRejectsArguments(p) ==
    /\ pc[p] = "tools"
    /\ LET tc == CurrentCall(p)
           args == ParseArguments(tc.arguments)
       IN IF args = Null
          THEN /\ result' = [result EXCEPT ![p] = ErrResult("invalid arguments")]
               /\ pc' = [pc EXCEPT ![p] = "failed"]
               /\ returned' = Append(returned, p)
               /\ UNCHANGED <<messages, iter, response, tcIndex, executed>>
          ELSE /\ UNCHANGED <<result, returned>>
               /\ IF FindTool(tc.name) # None
                  THEN /\ executed' = [executed EXCEPT ![p] =
                                          Append(@, [id |-> tc.id,
                                                     name |-> tools[FindTool(tc.name)[1]],
                                                     args |-> args])]
                       /\ pc' = [pc EXCEPT ![p] = "executing"]
                       /\ UNCHANGED <<messages, iter, response, tcIndex>>
                  ELSE /\ PushToolResult(p, UnknownToolText(tc.name))
                       /\ UNCHANGED executed
    /\ UNCHANGED <<sent, sentDefs, received, outcomes, oddLeft, unsent, earlier, cleared,
                   request, device, reply>>

\* one tool call: parse the arguments, look the tool up; an unknown name gets
\* its tool message at once, a known one starts tool.execute(args, &ctx)
ToolLookup(p) ==
    /\ pc[p] = "tools"
    /\ LET tc == CurrentCall(p)
           args == ParseArguments(tc.arguments)
       IN IF FindTool(tc.name) # None
          THEN /\ executed' = [executed EXCEPT ![p] =
                                  Append(@, [id |-> tc.id,
                                             name |-> tools[FindTool(tc.name)[1]],
                                             args |-> args])]
               /\ pc' = [pc EXCEPT ![p] = "executing"]
               /\ UNCHANGED <<messages, iter, response, tcIndex>>
          ELSE /\ PushToolResult(p, UnknownToolText(tc.name))
               /\ UNCHANGED executed
    /\ UNCHANGED <<result, sent, sentDefs, received, outcomes, oddLeft, unsent,
                   returned, earlier, cleared, request, device, reply>>

\* a handler error that is propagated with `?` instead of being matched
ToolReturnsPropagates(p, o) ==
    /\ pc[p] = "executing"
    /\ o = DefaultOutcome \/ (oddLeft > 0 /\ iter[p] < MaxOddRounds)
    /\ oddLeft' = IF o = DefaultOutcome THEN oddLeft ELSE oddLeft - 1
    /\ outcomes' = [outcomes EXCEPT ![p] = Append(@, o)]
    /\ IF o.ok
       THEN /\ PushToolResult(p, ToolResultText(o))
            /\ UNCHANGED <<result, returned>>
       ELSE /\ result' = [result EXCEPT ![p] = ErrResult(o.err)]
            /\ pc' = [pc EXCEPT ![p] = "failed"]
            /\ returned' = Append(returned, p)
            /\ UNCHANGED <<messages, iter, response, tcIndex>>
    /\ UNCHANGED <<sent, sentDefs, received, executed, unsent, earlier, cleared,
                   request, device, reply>>

\* tool.execute(..).await returns o
ToolReturns(p, o) ==
    /\ pc[p] = "executing"
    /\ o = DefaultOutcome \/ (oddLeft > 0 /\ iter[p] < MaxOddRounds)
    /\ oddLeft' = IF o = DefaultOutcome THEN oddLeft ELSE oddLeft - 1
    /\ outcomes' = [outcomes EXCEPT ![p] = Append(@, o)]
    /\ PushToolResult(p, ToolResultText(o))
    /\ UNCHANGED <<result, sent, sentDefs, received, executed, unsent, returned,
                   earlier, cleared, request, device, reply>>

\* tool.execute(..).await panics (TypeTextTool::execute does, slicing
\* &text[..57] inside a multi-byte character): chat awaits the handler in its
\* own task, so the panic unwinds chat; nothing is pushed, nothing is returned
ToolPanics(p) ==
    /\ pc[p] = "executing"
    /\ pc' = [pc EXCEPT ![p] = "panicked"]
    /\ UNCHANGED <<messages, iter, response, tcIndex, result, sent, sentDefs,
                   received, executed, outcomes, oddLeft, unsent, returned, earlier, cleared,
                   request, device, reply>>

Step(p) ==
    \/ ProviderCall(p)
    \/ CapReached(p)
    \/ \E e \in ProviderErrors : ProviderFails(p, e)
    \/ \E r \in TextResponses : ProviderText(p, r)
    \/ \E r \in ToolResponses : ProviderToolCalls(p, r)
    \/ ToolLookup(p)
    \/ \E o \in Outcomes : ToolReturns(p, o)
    \/ ToolPanics(p)

Next ==
    \E p \in Calls :
        \/ \E m \in UserMessages : send_message(p, m)
        \/ Step(p)

Spec == Init /\ [][Next]_vars

SpecTurns == InitTurns /\ [][Next]_vars

\* one invocation in which every provider call and every tool execution that
\* is awaited comes to an end, and the task running chat is scheduled
SpecLive == InitLive /\ [][Next]_vars /\ \A p \in Calls : WF_vars(Step(p))

\* the reset operation the frontend may invoke between two messages: it clears
\* the agent's stored history back to the system message.  send_message works
\* on the history chat builds for itself, so all that reaches a later call is
\* that the reset came directly before it.
clear_history ==
    /\ unsent # {}
    /\ \A p \in Calls : pc[p] \notin InFlight
    /\ \E p \in unsent :
          /\ \A q \in unsent : p <= q
          /\ p \notin cleared
          /\ cleared' = cleared \cup {p}
    /\ UNCHANGED <<pc, messages, iter, response, tcIndex, result, sent, sentDefs,
                   received, executed, outcomes, oddLeft, unsent, returned, earlier,
                   request, device, reply>>

NextReset ==
    \/ Next
    \/ clear_history

\* MaxChats invocations with resets between them, against a plain provider
SpecReset == InitTurns /\ [][NextReset]_vars

(***************************************************************************)
(* Desktop automation: serde_json::Value as the handlers read it.          *)
(* A value carries its kind in t, a number in n and a string in s; a       *)
(* number with a fractional part carries its tenths in n.                  *)
(***************************************************************************)
\* the largest click count the environment asks for
MaxCount == 3

Absent == [t |-> "absent", n |-> 0, s |-> ""]
JInt(n) == [t |-> "int", n |-> n, s |-> ""]
JFloat(tenths) == [t |-> "float", n |-> tenths, s |-> ""]
JStr(s) == [t |-> "str", n |-> 0, s |-> s]
JArr(items) == [t |-> "arr", n |-> 0, s |-> "", items |-> items]

\* an object without any of the keys the handlers look at; Value::Null and
\* every non-object answer get(..) with None as well
NoArgs ==
    [x |-> Absent, y |-> Absent, text |-> Absent, button |-> Absent,
     count |-> Absent, key |-> Absent, modifiers |-> Absent]

\* Value::as_f64, Value::as_u64, Value::as_str, Value::as_array after get(..)
as_f64(j) == IF j.t \in {"int", "float"} THEN Some(j) ELSE None

as_u64(j) == IF j.t = "int" /\ j.n >= 0 THEN Some(j.n) ELSE None

as_str(j) == IF j.t = "str" THEN Some(j.s) ELSE None

as_array(j) == IF j.t = "arr" THEN Some(j.items) ELSE None

\* Option::unwrap_or
unwrap_or(o, d) == IF o = None THEN d ELSE o[1]

\* {x} of an f64
FormatF64(j) ==
    IF j.t = "int" THEN ToString(j.n)
    ELSE ToString(j.n \div 10) \o "." \o ToString(j.n % 10)

\* the strings of the model are ASCII, but for LongAccented, whose last three
\* letters stand for three two-byte characters
LongAscii == "aaaaaaaaaaaaaaaaaaaaaaaaaaaaaaaaaaaaaaaaaaaaaaaaaaaaaaaaaaaaaa"

LongAsciiHead == "aaaaaaaaaaaaaaaaaaaaaaaaaaaaaaaaaaaaaaaaaaaaaaaaaaaaaaaaa"

LongAccented == "aaaaaaaaaaaaaaaaaaaaaaaaaaaaaaaaaaaaaaaaaaaaaaaaaaaaaaaaEEE"

ShortText == "hello"

\* str::len, in bytes
ByteLen(s) == IF s = LongAccented THEN 62 ELSE Len(s)

\* &text[..57]: None when byte 57 is not a character boundary (the slice panics)
SliceTo57(s) ==
    IF s = LongAscii THEN Some(LongAsciiHead)
    ELSE IF s = LongAccented THEN None
    ELSE Some(s)

\* str::to_ascii_lowercase, on the strings of the model
to_ascii_lowercase(s) ==
    IF s = "Tab" THEN "tab"
    ELSE IF s = "Shift" THEN "shift"
    ELSE s

parse_flag(s) ==
    LET l == to_ascii_lowercase(s)
    IN IF l = "shift" THEN Some("Shift")
       ELSE IF l \in {"control", "ctrl"} THEN Some("Control")
       ELSE IF l \in {"alt", "option"} THEN Some("Alt")
       ELSE IF l \in {"meta", "cmd", "command", "win", "super"} THEN Some("Meta")
       ELSE None

flag_name(f) ==
    IF f = "Shift" THEN "Shift"
    ELSE IF f = "Control" THEN "Ctrl"
    ELSE IF f = "Alt" THEN "Alt"
    ELSE IF f = "Meta" THEN "Cmd"
    ELSE "Help"

\* the key names with a KeyCode of their own name
PlainKeyNames ==
    {"tab", "space", "backspace", "home", "end", "pageup", "pagedown", "capslock",
     "printscreen", "scrolllock", "pause",
     "f1", "f2", "f3", "f4", "f5", "f6", "f7", "f8", "f9", "f10", "f11", "f12",
     "f13", "f14", "f15", "f16", "f17", "f18", "f19", "f20", "f21", "f22", "f23", "f24"}

parse_key_code(s) ==
    LET l == to_ascii_lowercase(s)
    IN IF l \in {"return", "enter"} THEN Some("return")
       ELSE IF l \in {"escape", "esc"} THEN Some("escape")
       ELSE IF l \in {"delete", "del"} THEN Some("delete")
       ELSE IF l \in {"up", "uparrow"} THEN Some("uparrow")
       ELSE IF l \in {"down", "downarrow"} THEN Some("downarrow")
       ELSE IF l \in {"left", "leftarrow"} THEN Some("leftarrow")
       ELSE IF l \in {"right", "rightarrow"} THEN Some("rightarrow")
       ELSE IF l \in PlainKeyNames THEN Some(l)
       ELSE None

\* arr.iter().filter_map(|v| v.as_str().and_then(parse_flag)).collect()
RECURSIVE CollectFlags(_)
CollectFlags(items) ==
    IF items = <<>> THEN <<>>
    ELSE LET v == Head(items)
             f == IF as_str(v) = None THEN None ELSE parse_flag(as_str(v)[1])
         IN (IF f = None THEN <<>> ELSE <<f[1]>>) \o CollectFlags(Tail(items))

\* names.join(" + ")
RECURSIVE JoinFlagNames(_)
JoinFlagNames(flags) ==
    IF flags = <<>> THEN ""
    ELSE IF Len(flags) = 1 THEN flag_name(flags[1])
    ELSE flag_name(flags[1]) \o " + " \o JoinFlagNames(Tail(flags))

\* what the handlers do to the mouse and the keyboard
DeviceAction(op, a, b) == [op |-> op, a |-> a, b |-> b]

\* what a handler hands back: for a tool, "error" is Ok(ToolOutput::error(..));
\* for the dispatcher it is Err(..); "panic" is a handler that unwound
Reply(status, text) == Some([status |-> status, text |-> text])

Handled(dev, status, text) == [device |-> dev, reply |-> Reply(status, text)]

(***************************************************************************)
(* The handlers.  `moved` is whether mouse::move_to accepted the point.    *)
(***************************************************************************)
\* MoveMouseTool::execute
MoveMouseToolExecute(args, moved) ==
    LET x == as_f64(args.x)
        y == as_f64(args.y)
    IN IF x = None THEN Handled(<<>>, "error", "Missing or invalid 'x' parameter")
       ELSE IF y = None THEN Handled(<<>>, "error", "Missing or invalid 'y' parameter")
       ELSE LET at == "(" \o FormatF64(x[1]) \o ", " \o FormatF64(y[1]) \o ")"
            IN IF moved
               THEN Handled(<<DeviceAction("move_to", FormatF64(x[1]), FormatF64(y[1]))>>,
                            "ok", "Mouse moved to " \o at)
               ELSE Handled(<<>>, "error",
                            "Failed to move mouse to " \o at \o ": out of bounds")

\* args.get("button").and_then(Value::as_str).unwrap_or("left")
ClickButton(args) == unwrap_or(as_str(args.button), "left")

\* a click count taken as it comes, without .max(1)
ClickCountUnfloored(args) == unwrap_or(as_u64(args.count), 1)

\* args.get("count").and_then(Value::as_u64).unwrap_or(1).max(1)
ClickCount(args) ==
    LET c == unwrap_or(as_u64(args.count), 1)
    IN IF c >= 1 THEN c ELSE 1

\* a click that is performed before the button is looked at
ClickToolExecuteClicksFirst(args) ==
    LET button_str == ClickButton(args)
        count == ClickCount(args)
        clicks == [i \in 1..count |-> DeviceAction("click", button_str, "")]
    IN IF button_str \notin {"left", "right", "middle"}
       THEN Handled(clicks, "error",
                    "Unknown button '" \o button_str \o "'. Use left, right, or middle.")
       ELSE Handled(clicks, "ok", "Performed " \o button_str \o " click")

\* ClickTool::execute
ClickToolExecute(args) ==
    LET button_str == ClickButton(args)
        count == ClickCount(args)
        label == IF count = 1 THEN button_str \o " click"
                 ELSE ToString(count) \o "x " \o button_str \o " click"
    IN IF button_str \notin {"left", "right", "middle"}
       THEN Handled(<<>>, "error",
                    "Unknown button '" \o button_str \o "'. Use left, right, or middle.")
       ELSE Handled([i \in 1..count |-> DeviceAction("click", button_str, "")],
                    "ok", "Performed " \o label)

\* TypeTextTool::execute
TypeTextToolExecute(args) ==
    LET text == as_str(args.text)
    IN IF text = None THEN Handled(<<>>, "error", "Missing or invalid 'text' parameter")
       ELSE LET typed == <<DeviceAction("type_string", text[1], "")>>
                head == SliceTo57(text[1])
                len == ToString(ByteLen(text[1]))
            IN IF ByteLen(text[1]) > 60
               THEN IF head = None
                    THEN Handled(typed, "panic", "byte index 57 is not a char boundary")
                    ELSE Handled(typed, "ok",
                                 "Typed " \o len \o " characters: \"" \o head[1] \o "...\"")
               ELSE Handled(typed, "ok",
                            "Typed " \o len \o " characters: \"" \o text[1] \o "\"")

\* KeyPressTool::execute
KeyPressToolExecute(args) ==
    LET key_str == as_str(args.key)
        flags == IF as_array(args.modifiers) = None THEN <<>>
                 ELSE CollectFlags(as_array(args.modifiers)[1])
        mod_label == IF flags = <<>> THEN "" ELSE JoinFlagNames(flags) \o " + "
    IN IF key_str = None THEN Handled(<<>>, "error", "Missing or invalid 'key' parameter")
       ELSE IF parse_key_code(key_str[1]) # None
       THEN Handled(<<DeviceAction("tap", parse_key_code(key_str[1])[1], JoinFlagNames(flags))>>,
                    "ok", "Pressed " \o mod_label \o key_str[1])
       ELSE IF ByteLen(key_str[1]) = 1
       THEN Handled(<<DeviceAction("tap", key_str[1], JoinFlagNames(flags))>>,
                    "ok", "Pressed " \o mod_label \o key_str[1])
       ELSE Handled(<<>>, "error",
                    "Unknown key '" \o key_str[1]
                        \o "'. Use a single character or a named key (return, tab, escape, "
                        \o "space, backspace, delete, up, down, left, right, home, end, "
                        \o "pageup, pagedown, f1-f24).")

\* AutomationService::execute
AutomationServiceExecute(action, params, moved) ==
    IF action = "move_mouse"
    THEN LET x == as_f64(params.x)
             y == as_f64(params.y)
         IN IF x = None THEN Handled(<<>>, "error", "move_mouse requires numeric 'x' param")
            ELSE IF y = None
            THEN Handled(<<>>, "error", "move_mouse requires numeric 'y' param")
            ELSE IF ~moved
            THEN Handled(<<>>, "error", "Failed to move mouse: out of bounds")
            ELSE Handled(<<DeviceAction("move_to", FormatF64(x[1]), FormatF64(y[1]))>>, "ok",
                         "Moved mouse to (" \o FormatF64(x[1]) \o ", "
                             \o FormatF64(y[1]) \o ")")
    ELSE IF action = "click"
    THEN Handled(<<DeviceAction("click", "left", "")>>, "ok", "Clicked at current position")
    ELSE IF action = "type"
    THEN LET text == as_str(params.text)
         IN IF text = None THEN Handled(<<>>, "error", "type requires string 'text' param")
            ELSE Handled(<<DeviceAction("type_string", text[1], "")>>, "ok",
                         "Typed: " \o text[1])
    ELSE IF action = "screen_size" THEN Handled(<<>>, "ok", "1440x900")
    ELSE IF action = "mouse_position" THEN Handled(<<>>, "ok", "(100, 200)")
    ELSE Handled(<<>>, "error", "Unknown automation action: " \o action)

(***************************************************************************)
(* The automation invocations the frontend and the agent may make.         *)
(***************************************************************************)
NumberValues == {Absent, JInt(100), JFloat(2005), JStr("100")}

ButtonValues ==
    {Absent, JStr("left"), JStr("right"), JStr("middle"), JStr("double"), JInt(2)}

CountValues ==
    {Absent, JInt(-1), JFloat(25), JStr("2")} \cup { JInt(n) : n \in 0..MaxCount }

TextValues == {Absent, JInt(5), JStr(ShortText), JStr(LongAscii), JStr(LongAccented)}

KeyValues == {Absent, JInt(1), JStr("a"), JStr("Tab"), JStr("enter"), JStr("hyper"), JStr("")}

ModifierValues ==
    {Absent, JArr(<<JStr("cmd"), JInt(1), JStr("bogus"), JStr("Shift")>>)}

MoveArgs == { [NoArgs EXCEPT !.x = a, !.y = b] : a \in NumberValues, b \in NumberValues }

ClickArgs == { [NoArgs EXCEPT !.button = b, !.count = c] : b \in ButtonValues, c \in CountValues }

TypeArgs == { [NoArgs EXCEPT !.text = t] : t \in TextValues }

KeyArgs == { [NoArgs EXCEPT !.key = k, !.modifiers = m] : k \in KeyValues, m \in ModifierValues }

DispatcherActions ==
    {"move_mouse", "click", "type", "screen_size", "mouse_position", "scroll"}

Request(target, action, args) == [target |-> target, action |-> action, args |-> args]

Requests ==
    { Request("move_mouse", "", a) : a \in MoveArgs }
    \cup { Request("click", "", a) : a \in ClickArgs }
    \cup { Request("type_text", "", a) : a \in TypeArgs }
    \cup { Request("key_press", "", a) : a \in KeyArgs }
    \cup { Request("execute_automation", act, a) :
              act \in DispatcherActions, a \in MoveArgs \cup TypeArgs }

\* one automation invocation, with any of the arguments above
InitAutomation ==
    /\ Fresh
    /\ oddLeft = 0
    /\ unsent = {}
    /\ request \in { Some(r) : r \in Requests }

\* the invocation has not run yet and is addressed to `target`
Pending(target) ==
    /\ request # None
    /\ reply = None
    /\ request[1].target = target

Respond(h) ==
    /\ device' = h.device
    /\ reply' = h.reply
    /\ UNCHANGED <<pc, messages, iter, response, tcIndex, result, sent, sentDefs,
                   received, executed, outcomes, oddLeft, unsent, returned, earlier,
                   cleared, request>>

\* spawn_blocking(move || automation.execute(&action, &params)).await
execute_automation ==
    /\ Pending("execute_automation")
    /\ \E moved \in BOOLEAN :
          Respond(AutomationServiceExecute(request[1].action, request[1].args, moved))

MoveMouseTool ==
    /\ Pending("move_mouse")
    /\ \E moved \in BOOLEAN : Respond(MoveMouseToolExecute(request[1].args, moved))

ClickTool ==
    /\ Pending("click")
    /\ Respond(ClickToolExecute(request[1].args))

TypeTextTool ==
    /\ Pending("type_text")
    /\ Respond(TypeTextToolExecute(request[1].args))

KeyPressTool ==
    /\ Pending("key_press")
    /\ Respond(KeyPressToolExecute(request[1].args))

NextAutomation ==
    \/ execute_automation
    \/ MoveMouseTool
    \/ ClickTool
    \/ TypeTextTool
    \/ KeyPressTool

SpecAutomation == InitAutomation /\ [][NextAutomation]_vars

(***************************************************************************)
(* What the histories of a call say.                                       *)
(***************************************************************************)
\* provider calls made so far by call p
ProviderCalls(p) == Len(received[p]) + (IF pc[p] = "awaiting" THEN 1 ELSE 0)

IsToolBearing(a) == a.ok /\ a.tool_calls # <<>>

IsFailure(a) == ~a.ok

IsText(a) == a.ok /\ a.tool_calls = <<>>

\* every answer received so far carried at least one tool call
AllToolBearing(p) == \A k \in DOMAIN received[p] : IsToolBearing(received[p][k])

\* every answer but the last carried tool calls, and the last carried none
ToolRoundsThenText(p) ==
    /\ received[p] # <<>>
    /\ IsText(received[p][Len(received[p])])
    /\ \A k \in 1..(Len(received[p]) - 1) : IsToolBearing(received[p][k])

(***************************************************************************)
(* C1: a chat call whose every provider response carries a tool call makes *)
(* exactly 10 provider calls, never an 11th, and then returns the fixed    *)
(* completion string as a success value.                                   *)
(***************************************************************************)
C1_CapAfterTenCalls ==
    \A p \in Calls :
        /\ ProviderCalls(p) <= 10
        /\ (pc[p] \in Terminal /\ AllToolBearing(p)) =>
               /\ pc[p] = "cap"
               /\ ProviderCalls(p) = 10
               /\ result[p] = OkResult("I've completed the requested actions.")
        /\ (pc[p] \in InFlight /\ AllToolBearing(p)) => Len(received[p]) <= 10

C1_Witness ==
    \E p \in Calls : pc[p] = "cap" /\ AllToolBearing(p) /\ Len(received[p]) = 10

(***************************************************************************)
(* C2, as stated: for every N with 0 <= N <= 10, after N tool-call-bearing *)
(* responses the call is still running, asks the provider an (N+1)-th time *)
(* and, given a response without tool calls, ends in Done with that        *)
(* response's content after exactly N+1 provider calls.                    *)
(***************************************************************************)
C2_Original ==
    \A p \in Calls :
        /\ (AllToolBearing(p) /\ Len(received[p]) <= 10) => pc[p] \notin Terminal
        /\ ToolRoundsThenText(p) =>
               /\ pc[p] = "done"
               /\ ProviderCalls(p) = Len(received[p])
               /\ result[p] = OkResult(received[p][Len(received[p])].content)

(***************************************************************************)
(* C2, amended: the same for every N with 0 <= N <= 9; after 10            *)
(* tool-call-bearing responses no 11th provider call is made and the call  *)
(* ends with the generic completion string.                                *)
(***************************************************************************)
C2_DoneAfterNPlusOne ==
    \A p \in Calls :
        /\ (AllToolBearing(p) /\ Len(received[p]) <= 9) => pc[p] \notin Terminal
        /\ ToolRoundsThenText(p) =>
               /\ pc[p] = "done"
               /\ Len(received[p]) <= 10
               /\ ProviderCalls(p) = Len(received[p])
               /\ result[p] = OkResult(received[p][Len(received[p])].content)
        /\ (AllToolBearing(p) /\ Len(received[p]) = 10) =>
               pc[p] \in {"tools", "executing", "panicked", "loop", "cap"}
        /\ pc[p] = "done" => ToolRoundsThenText(p)

C2_Witness ==
    \E p \in Calls :
        /\ pc[p] = "done"
        /\ Len(received[p]) = 10
        /\ ToolRoundsThenText(p)
        /\ result[p] = OkResult("Done, I moved the mouse.")

(***************************************************************************)
(* C3, as stated: when the first provider response carries no tool calls,  *)
(* chat returns that response's content after one provider call and the    *)
(* history has grown by exactly two messages, the user message and an      *)
(* assistant message holding that content.                                 *)
(***************************************************************************)
C3_Original ==
    \A p \in Calls :
        (Len(received[p]) = 1 /\ IsText(received[p][1])) =>
            /\ result[p] = OkResult(received[p][1].content)
            /\ ProviderCalls(p) = 1
            /\ Len(messages[p]) = 3
            /\ messages[p][1] = MessageSystem(SYSTEM_PROMPT)
            /\ messages[p][2].role = "user"
            /\ messages[p][3].role = "assistant"
            /\ messages[p][3].content = received[p][1].content

(***************************************************************************)
(* Reading a history h: the assistant message a tool message answers, and  *)
(* the tool call it answers.                                               *)
(***************************************************************************)
ToolNames == { tools[i] : i \in DOMAIN tools }

\* index of the most recent assistant message before position i, 0 if none
AssistantOf(h, i) ==
    LET S == { j \in 1..(i - 1) : h[j].role = "assistant" }
    IN IF S = {} THEN 0 ELSE CHOOSE j \in S : \A k \in S : k <= j

CallOf(h, i) == h[AssistantOf(h, i)].tool_calls[i - AssistantOf(h, i)]

IsAssistantMsg(m) == m.role = "assistant"

\* every tool call of every assistant message of h has its tool message
AllAnswered(h) ==
    \A j \in DOMAIN h :
        h[j].role = "assistant" =>
            \A k \in 1..Len(h[j].tool_calls) :
                /\ j + k <= Len(h)
                /\ h[j + k].role = "tool"
                /\ h[j + k].tool_call_id = Some(h[j].tool_calls[k].id)

\* the tool messages of h that answer a call to a registered tool, in order
RECURSIVE RegisteredResults(_, _)
RegisteredResults(h, n) ==
    IF n = 0 THEN <<>>
    ELSE IF h[n].role = "tool" /\ CallOf(h, n).name \in ToolNames
         THEN Append(RegisteredResults(h, n - 1), h[n])
         ELSE RegisteredResults(h, n - 1)

(***************************************************************************)
(* C4: every tool message answers, by id and by position, a tool call of   *)
(* the most recent assistant message before it; a finished round has       *)
(* exactly one tool message per call, in the calls' order; and the calls   *)
(* of the assistant messages are the calls the provider sent in that round.*)
(***************************************************************************)
C4_ToolMessagesMatchCalls ==
    \A p \in Calls :
        LET h == messages[p]
            asst == SelectSeq(h, IsAssistantMsg)
            bearing == SelectSeq(received[p], IsToolBearing)
        IN /\ \A i \in DOMAIN h :
                  h[i].role = "tool" =>
                      LET j == AssistantOf(h, i)
                      IN /\ j > 0
                         /\ i - j <= Len(h[j].tool_calls)
                         /\ h[i].tool_call_id = Some(h[j].tool_calls[i - j].id)
           /\ pc[p] \notin MidRound => AllAnswered(h)
           /\ pc[p] \in MidRound =>
                  /\ AssistantOf(h, Len(h) + 1) = Len(h) - (tcIndex[p] - 1)
                  /\ AllAnswered(SubSeq(h, 1, AssistantOf(h, Len(h) + 1) - 1))
           /\ Len(asst) = Len(bearing)
           /\ \A k \in DOMAIN asst : asst[k].tool_calls = bearing[k].tool_calls

C4_Witness ==
    \E p \in Calls :
        \E j \in DOMAIN messages[p] :
            /\ messages[p][j].role = "assistant"
            /\ Len(messages[p][j].tool_calls) = 2
            /\ j + 2 <= Len(messages[p])
            /\ messages[p][j + 1].tool_call_id = Some("call_1")
            /\ messages[p][j + 2].tool_call_id = Some("call_2")

(***************************************************************************)
(* C5: a chat call returns an error if and only if one of its provider     *)
(* calls failed; unknown tools, unparseable arguments, handler failures    *)
(* and the iteration cap never make it return an error.                    *)
(***************************************************************************)
C5_ErrorIffProviderFailed ==
    \A p \in Calls :
        /\ result[p] # None <=> pc[p] \in Terminal
        /\ result[p] # None =>
               (~result[p][1].ok <=> \E k \in DOMAIN received[p] : IsFailure(received[p][k]))
        /\ pc[p] = "cap" => result[p][1].ok

C5_Witness ==
    \E p \in Calls :
        /\ result[p] # None
        /\ result[p][1].ok
        /\ \E k \in DOMAIN outcomes[p] : ~outcomes[p][k].ok
        /\ \E k \in DOMAIN executed[p] : executed[p][k].args = Null

RECURSIVE AppendedBy(_)
AppendedBy(qs) ==
    IF qs = <<>> THEN <<>>
    ELSE Tail(messages[Head(qs)]) \o AppendedBy(Tail(qs))

C7_Original ==
    \A p \in Calls :
        pc[p] = "awaiting" =>
            LET prior == <<MessageSystem(SYSTEM_PROMPT)>> \o AppendedBy(earlier[p])
            IN /\ Len(sent[p]) > Len(prior)
               /\ SubSeq(sent[p], 1, Len(prior)) = prior
               /\ sent[p][Len(prior) + 1].role = "user"

(***************************************************************************)
(* C8, as stated: at most one chat call is in flight at any time; a second *)
(* call waits or is rejected while the first is running.                   *)
(***************************************************************************)
C8_Original == Cardinality({ p \in Calls : pc[p] \in InFlight }) <= 1

(***************************************************************************)
(* C9: a tool call whose name is no registered tool's name gets the tool   *)
(* message "Unknown tool: <name>" under its id; no handler runs for it, it *)
(* does not make chat fail, and the remaining calls and the next round     *)
(* follow.                                                                 *)
(***************************************************************************)
C9_UnknownToolAbsorbed ==
    \A p \in Calls :
        LET h == messages[p]
        IN /\ \A i \in DOMAIN h :
                  (h[i].role = "tool" /\ CallOf(h, i).name \notin ToolNames) =>
                      h[i] = MessageToolResult(CallOf(h, i).id,
                                               "Unknown tool: " \o CallOf(h, i).name)
           /\ \A k \in DOMAIN executed[p] :
                  \E i \in DOMAIN h :
                      /\ h[i].role = "assistant"
                      /\ \E n \in DOMAIN h[i].tool_calls :
                             /\ h[i].tool_calls[n].id = executed[p][k].id
                             /\ h[i].tool_calls[n].name = executed[p][k].name
                             /\ executed[p][k].name \in ToolNames
           /\ Len(executed[p]) =
                  Cardinality({ i \in DOMAIN h :
                                  h[i].role = "tool" /\ CallOf(h, i).name \in ToolNames })
                  + (IF pc[p] \in {"executing", "panicked"} THEN 1 ELSE 0)
           /\ pc[p] \notin MidRound => AllAnswered(h)
           /\ pc[p] = "failed" => IsFailure(received[p][Len(received[p])])

C9_Witness ==
    \E p \in Calls :
        \E i \in DOMAIN messages[p] :
            /\ messages[p][i] = MessageToolResult("call_1", "Unknown tool: does_not_exist")
            /\ i < Len(messages[p])
            /\ messages[p][i + 1].role = "tool"
            /\ Len(received[p]) = 2
            /\ pc[p] = "done"

(***************************************************************************)
(* C10: when a handler returns an error, the tool message of that call is  *)
(* "Tool error: <details>", the remaining calls of the round are executed  *)
(* and the next provider round follows; the chat call is not aborted.      *)
(***************************************************************************)
C10_HandlerErrorAbsorbed ==
    \A p \in Calls :
        LET h == messages[p]
            rr == RegisteredResults(h, Len(h))
        IN /\ Len(rr) = Len(outcomes[p])
           /\ \A k \in DOMAIN outcomes[p] :
                  ~outcomes[p][k].ok =>
                      rr[k] = MessageToolResult(executed[p][k].id,
                                                "Tool error: " \o outcomes[p][k].err)
           /\ pc[p] \notin MidRound => AllAnswered(h)
           /\ pc[p] = "failed" => IsFailure(received[p][Len(received[p])])
           /\ pc[p] = "loop" => iter[p] = Len(received[p])

C10_Witness ==
    \E p \in Calls :
        /\ pc[p] = "done"
        /\ Len(outcomes[p]) = 2
        /\ ~outcomes[p][1].ok
        /\ executed[p][1].id = "call_1"
        /\ executed[p][2].id = "call_2"
        /\ messages[p][4] = MessageToolResult("call_1", "Tool error: device unavailable")

(***************************************************************************)
(* C11, as stated: a panic inside a tool execution is caught and becomes   *)
(* the "Tool error" tool message of that call; the chat call is not        *)
(* aborted by it and goes on.                                              *)
(***************************************************************************)
C11_Original ==
    \A p \in Calls :
        /\ pc[p] # "panicked"
        /\ Len(executed[p]) > Len(outcomes[p]) => pc[p] = "executing"

(***************************************************************************)
(* C12, as stated: reset() followed by a chat whose first provider         *)
(* response carries no tool call leaves the history as exactly system,     *)
(* user, assistant, with nothing of an earlier turn in it.                 *)
(***************************************************************************)
C12_Original ==
    \A p \in cleared :
        (pc[p] = "done" /\ Len(received[p]) = 1) =>
            /\ Len(messages[p]) = 3
            /\ messages[p][1] = MessageSystem(SYSTEM_PROMPT)
            /\ messages[p][2].role = "user"
            /\ messages[p][3].role = "assistant"
            /\ messages[p][3].content = received[p][1].content

(***************************************************************************)
(* C13: the history of a call starts with the system message and holds no  *)
(* other system message, and a step of the call only appends to it: the    *)
(* history before the step is a prefix of the history after it, and what   *)
(* is appended are user, assistant and tool messages.                      *)
(***************************************************************************)
IsPrefix(a, b) ==
    /\ Len(a) <= Len(b)
    /\ \A i \in 1..Len(a) : a[i] = b[i]

C13_OneSystemMessage ==
    \A p \in Calls :
        pc[p] # "idle" =>
            /\ Len(messages[p]) >= 2
            /\ messages[p][1] = MessageSystem(SYSTEM_PROMPT)
            /\ \A i \in 2..Len(messages[p]) : messages[p][i].role # "system"

C13_AppendOnlyStep ==
    \A p \in Calls :
        /\ IsPrefix(messages[p], messages'[p])
        /\ \A i \in (Len(messages[p]) + 1)..Len(messages'[p]) :
              messages'[p][i].role \in
                  (IF i = 1 THEN {"system"} ELSE {"user", "assistant", "tool"})

C13_SystemFirstAppendOnly ==
    []C13_OneSystemMessage /\ [][C13_AppendOnlyStep]_vars

\* a call that ended after an assistant message and a tool message were appended
C13_Witness ==
    \E p \in Calls :
        /\ pc[p] = "done"
        /\ Len(messages[p]) >= 4
        /\ messages[p][3].role = "assistant"
        /\ messages[p][4].role = "tool"

(***************************************************************************)
(* C14, as stated: after one or more tool-call rounds and a final text     *)
(* response the history ends with an assistant message carrying the final  *)
(* content; with one round of one call the history is system, user,        *)
(* assistant-with-call, tool-result, assistant-final, five messages, and   *)
(* chat returns the final text.                                            *)
(***************************************************************************)
C14_Original ==
    \A p \in Calls :
        (pc[p] = "done" /\ Len(received[p]) >= 2) =>
            LET h == messages[p]
                final == received[p][Len(received[p])]
            IN /\ result[p] = OkResult(final.content)
               /\ h[Len(h)].role = "assistant"
               /\ h[Len(h)].content = final.content
               /\ h[Len(h)].tool_calls = <<>>
               /\ (Len(received[p]) = 2 /\ Len(received[p][1].tool_calls) = 1) =>
                      /\ Len(h) = 5
                      /\ h[3].role = "assistant"
                      /\ h[4].role = "tool"

(***************************************************************************)
(* The tool calls a history asks for, in order.                            *)
(***************************************************************************)
RECURSIVE FlattenCalls(_, _)
FlattenCalls(h, n) ==
    IF n = 0 THEN <<>> ELSE FlattenCalls(h, n - 1) \o h[n].tool_calls

IsRegisteredCall(tc) == tc.name \in ToolNames

\* the calls of h that name a registered tool, in order
RegisteredCalls(h) == SelectSeq(FlattenCalls(h, Len(h)), IsRegisteredCall)

(***************************************************************************)
(* C15: the tool calls of a round are executed one at a time in the order  *)
(* the provider returned them: while the handler of call i+1 runs, the     *)
(* tool messages of calls 1..i are the last i messages of the history and  *)
(* every earlier execution has returned; and a provider call is issued     *)
(* only with a history in which every tool call has its tool message.      *)
(***************************************************************************)
C15_SequentialInOrder ==
    \A p \in Calls :
        LET h == messages[p]
            a == AssistantOf(h, Len(h) + 1)
            n == Len(h) - a
            reg == RegisteredCalls(h)
        IN /\ Len(executed[p]) <= Len(reg)
           /\ \A k \in DOMAIN executed[p] :
                  /\ executed[p][k].id = reg[k].id
                  /\ executed[p][k].name = reg[k].name
           /\ pc[p] = "executing" =>
                  /\ a > 0
                  /\ n < Len(h[a].tool_calls)
                  /\ \A k \in 1..n :
                        /\ h[a + k].role = "tool"
                        /\ h[a + k].tool_call_id = Some(h[a].tool_calls[k].id)
                  /\ executed[p][Len(executed[p])].id = h[a].tool_calls[n + 1].id
                  /\ Len(outcomes[p]) = Len(executed[p]) - 1
                  /\ Len(RegisteredResults(h, Len(h))) = Len(executed[p]) - 1
           /\ pc[p] \in {"loop", "awaiting", "tools"} \cup Terminal =>
                  /\ Len(outcomes[p]) = Len(executed[p])
                  /\ Len(RegisteredResults(h, Len(h))) = Len(executed[p])
           /\ pc[p] = "awaiting" => sent[p] = h
           /\ AllAnswered(sent[p])

\* the handler of the second call of a round runs after the first call got
\* its tool message
C15_Witness ==
    \E p \in Calls :
        /\ pc[p] = "executing"
        /\ Len(executed[p]) = 2
        /\ executed[p][2].id = "call_2"
        /\ messages[p][Len(messages[p])].tool_call_id = Some("call_1")

(***************************************************************************)
(* C16: a tool call whose arguments text does not parse is executed with   *)
(* null arguments: the handler of a registered tool is invoked all the     *)
(* same, the call gets its tool message, and chat neither stops nor        *)
(* returns an error because of it.                                         *)
(***************************************************************************)
C16_BadArgumentsBecomeNull ==
    \A p \in Calls :
        LET h == messages[p]
            reg == RegisteredCalls(h)
        IN /\ Len(executed[p]) <= Len(reg)
           /\ \A k \in DOMAIN executed[p] :
                  /\ reg[k].arguments = ArgsGarbage => executed[p][k].args = Null
                  /\ reg[k].arguments = ArgsXY =>
                         executed[p][k].args = [kind |-> "object", x |-> 100, y |-> 200]
           /\ pc[p] \notin MidRound =>
                  /\ Len(executed[p]) = Len(reg)
                  /\ AllAnswered(h)
           /\ pc[p] = "failed" => IsFailure(received[p][Len(received[p])])
           /\ result[p] # None /\ ~result[p][1].ok => pc[p] = "failed"

\* a call that ended normally after a handler ran with null arguments, for a
\* tool call whose arguments did not parse, and the call got its tool message
C16_Witness ==
    \E p \in Calls :
        /\ pc[p] = "done"
        /\ \E k \in DOMAIN executed[p] :
              /\ executed[p][k].args = Null
              /\ RegisteredCalls(messages[p])[k].arguments = ArgsGarbage
              /\ RegisteredResults(messages[p], Len(messages[p]))[k].tool_call_id
                     = Some(executed[p][k].id)

(***************************************************************************)
(* C17: a provider response that carries tool calls never ends the loop,   *)
(* whatever its content: the assistant message appended for it carries     *)
(* that content and every tool call of the response, id, name and          *)
(* arguments unchanged and in the provider's order, and the content is     *)
(* not what chat returns.                                                  *)
(***************************************************************************)
C17_ToolBearingNeverFinal ==
    \A p \in Calls :
        LET asst == SelectSeq(messages[p], IsAssistantMsg)
            bearing == SelectSeq(received[p], IsToolBearing)
            n == Len(received[p])
        IN /\ Len(asst) = Len(bearing)
           /\ \A k \in DOMAIN asst :
                  asst[k] = MessageAssistantWithTools(bearing[k].content,
                                                      bearing[k].tool_calls)
           /\ pc[p] = "done" =>
                  /\ IsText(received[p][n])
                  /\ result[p] = OkResult(received[p][n].content)
           /\ (pc[p] \in Terminal /\ IsToolBearing(received[p][n])) =>
                  /\ pc[p] = "cap"
                  /\ n = MAX_ITERATIONS
                  /\ result[p] = OkResult(CapText)

\* a response with a text and a tool call was followed by its round and by a
\* further provider call, whose text is what chat returned
C17_Witness ==
    \E p \in Calls :
        /\ pc[p] = "done"
        /\ Len(received[p]) >= 2
        /\ received[p][1].content = "Moving the mouse now."
        /\ received[p][1].tool_calls # <<>>
        /\ messages[p][3].content = "Moving the mouse now."
        /\ result[p] # OkResult("Moving the mouse now.")

(***************************************************************************)
(* C18: every provider call of a chat call is handed the entire current    *)
(* history and the registry's tool definitions in registry order: the      *)
(* history handed over in a round is the one handed over in the round      *)
(* before, extended by that round's assistant message and its tool         *)
(* messages, and the tool definitions are the same in every round.         *)
(***************************************************************************)
C18_ProviderCallStep ==
    \A p \in Calls :
        IF pc[p] = "loop" /\ pc'[p] = "awaiting"
        THEN /\ sent'[p] = messages[p]
             /\ Len(sentDefs'[p]) = Len(tools)
             /\ \A i \in DOMAIN tools : sentDefs'[p][i].name = tools[i]
             /\ sent[p] # <<>> =>
                    LET n == Len(sent[p])
                        last == received[p][Len(received[p])]
                    IN /\ sentDefs'[p] = sentDefs[p]
                       /\ IsPrefix(sent[p], sent'[p])
                       /\ Len(sent'[p]) = n + 1 + Len(last.tool_calls)
                       /\ sent'[p][n + 1] =
                              MessageAssistantWithTools(last.content, last.tool_calls)
                       /\ \A i \in (n + 2)..Len(sent'[p]) : sent'[p][i].role = "tool"
        ELSE pc[p] # "idle" => (sent'[p] = sent[p] /\ sentDefs'[p] = sentDefs[p])

C18_EntireHistoryEachRound == [][C18_ProviderCallStep]_vars

\* the provider call of a second round is in flight, with the first round's
\* assistant and tool messages in the history it was handed
C18_Witness ==
    \E p \in Calls :
        /\ pc[p] = "awaiting"
        /\ Len(received[p]) = 1
        /\ Len(sent[p]) >= 4
        /\ sent[p][3].role = "assistant"
        /\ sent[p][4].role = "tool"
        /\ sentDefs[p] = ToolDefinitions

(***************************************************************************)
(* C19: when every provider call and every tool execution returns, a chat  *)
(* call terminates: it ends in exactly one of done (after a response       *)
(* without tool calls), cap (after the 10th tool-call round) or failed     *)
(* (after a provider failure), and once it has ended it makes no provider  *)
(* call and runs no tool.  A tool execution that panics does not return.   *)
(***************************************************************************)
C19_ExactlyOneEnd ==
    \A p \in Calls :
        LET n == Len(received[p])
        IN /\ pc[p] = "done" => IsText(received[p][n])
           /\ pc[p] = "failed" => IsFailure(received[p][n])
           /\ pc[p] = "cap" => (n = MAX_ITERATIONS /\ AllToolBearing(p))
           /\ pc[p] \in Terminal => (result[p] # None /\ response[p] = NoResponse)
           /\ pc[p] \in InFlight => result[p] = None

C19_NothingAfterEnd ==
    \A p \in Calls :
        pc[p] \in Terminal =>
            /\ pc'[p] = pc[p]
            /\ result'[p] = result[p]
            /\ messages'[p] = messages[p]
            /\ sent'[p] = sent[p]
            /\ received'[p] = received[p]
            /\ executed'[p] = executed[p]
            /\ outcomes'[p] = outcomes[p]

C19_Terminates ==
    /\ <>[](\A p \in Calls : pc[p] \in {"idle", "panicked"} \cup Terminal)
    /\ []C19_ExactlyOneEnd
    /\ [][C19_NothingAfterEnd]_vars

\* a call that ended with the provider's failure after a round in which a
\* tool was executed
C19_Witness ==
    \E p \in Calls :
        /\ pc[p] = "failed"
        /\ Len(received[p]) >= 2
        /\ Len(outcomes[p]) >= 1

(***************************************************************************)
(* C20: when a handler returns an output, the content of the tool message  *)
(* is the output's for_llm text whatever its success flag says: an output  *)
(* flagged as failed is embedded unchanged, without the "Tool error: "     *)
(* prefix, and the loop goes on as after a successful one.                 *)
(***************************************************************************)
C20_ForLlmEmbeddedUnchanged ==
    \A p \in Calls :
        LET h == messages[p]
            res == RegisteredResults(h, Len(h))
        IN /\ Len(outcomes[p]) = Len(res)
           /\ \A k \in DOMAIN outcomes[p] :
                  outcomes[p][k].ok =>
                      res[k] = MessageToolResult(executed[p][k].id, outcomes[p][k].for_llm)
           /\ pc[p] = "failed" => IsFailure(received[p][Len(received[p])])
           /\ (pc[p] \in Terminal /\ outcomes[p] # <<>>) => Len(received[p]) >= 2

\* a handler returned an output flagged as failed, its text is the content of
\* the tool message, and the call went on to a further provider call
C20_Witness ==
    \E p \in Calls :
        \E k \in DOMAIN outcomes[p] :
            /\ outcomes[p][k].ok
            /\ outcomes[p][k].is_error
            /\ RegisteredResults(messages[p], Len(messages[p]))[k].content
                   = "Missing or invalid 'x' parameter"
            /\ pc[p] = "done"

(***************************************************************************)
(* C21: when the iteration cap is reached the fixed completion text is     *)
(* returned to the caller and is not appended to the history: the history  *)
(* of the call ends with the tool messages of the 10th round and holds     *)
(* exactly 10 assistant messages.                                          *)
(***************************************************************************)
C21_CapTextNotInHistory ==
    \A p \in Calls :
        pc[p] = "cap" =>
            LET h == messages[p]
                a == AssistantOf(h, Len(h) + 1)
                tenth == received[p][MAX_ITERATIONS]
            IN /\ result[p] = OkResult(CapText)
               /\ \A i \in DOMAIN h : h[i].content # CapText
               /\ Len(SelectSeq(h, IsAssistantMsg)) = MAX_ITERATIONS
               /\ Len(received[p]) = MAX_ITERATIONS
               /\ h[a].tool_calls = tenth.tool_calls
               /\ Len(h) = a + Len(tenth.tool_calls)
               /\ \A k \in 1..Len(tenth.tool_calls) :
                      /\ h[a + k].role = "tool"
                      /\ h[a + k].tool_call_id = Some(tenth.tool_calls[k].id)
               /\ IsPrefix(sent[p], h)

\* a call that returned the completion text with the tool message of its
\* 10th round as the last message of its history
C21_Witness ==
    \E p \in Calls :
        /\ pc[p] = "cap"
        /\ result[p] = OkResult(CapText)
        /\ messages[p][Len(messages[p])].role = "tool"
        /\ Len(SelectSeq(messages[p], IsAssistantMsg)) = 10

(***************************************************************************)
(* C22: in the automation dispatcher and the automation tools, argument    *)
(* validation comes before the device action: an unknown action name, a    *)
(* move_mouse without numeric x or y, a type or type_text without string   *)
(* text, a click with an unknown button, and a key_press with a missing    *)
(* key or an unknown key of several characters all return an error         *)
(* without any mouse or keyboard action.                                   *)
(***************************************************************************)
IsNumber(j) == j.t \in {"int", "float"}

InvalidRequest(r) ==
    LET a == r.args
        dispatched == r.target = "execute_automation"
    IN \/ dispatched /\ r.action \notin
              {"move_mouse", "click", "type", "screen_size", "mouse_position"}
       \/ (r.target = "move_mouse" \/ (dispatched /\ r.action = "move_mouse"))
             /\ (~IsNumber(a.x) \/ ~IsNumber(a.y))
       \/ (r.target = "type_text" \/ (dispatched /\ r.action = "type"))
             /\ a.text.t # "str"
       \/ r.target = "click" /\ a.button.t = "str"
             /\ a.button.s \notin {"left", "right", "middle"}
       \/ r.target = "key_press"
             /\ \/ a.key.t # "str"
                \/ Len(a.key.s) > 1 /\ parse_key_code(a.key.s) = None

C22_ValidationBeforeDevice ==
    (reply # None /\ InvalidRequest(request[1])) =>
        /\ reply[1].status = "error"
        /\ device = <<>>

\* a click with the button "double" came back as an error and nothing was clicked
C22_Witness ==
    /\ reply # None
    /\ request[1].target = "click"
    /\ request[1].args.button = JStr("double")
    /\ request[1].args.count = JInt(2)
    /\ reply[1].status = "error"
    /\ device = <<>>

(***************************************************************************)
(* C23: the click tool performs exactly max(count, 1) clicks of the        *)
(* selected button when count is a non-negative integer, and exactly one   *)
(* click when count is absent or is not a non-negative integer, so that a  *)
(* count of 0 still clicks once; the button is left when none is given.    *)
(***************************************************************************)
C23_ClickCount ==
    LET a == request[1].args
        expected == IF a.count.t = "int" /\ a.count.n >= 0
                    THEN (IF a.count.n >= 1 THEN a.count.n ELSE 1)
                    ELSE 1
        selected == IF a.button.t = "str" THEN a.button.s ELSE "left"
    IN (reply # None /\ request[1].target = "click"
            /\ selected \in {"left", "right", "middle"}) =>
           /\ reply[1].status = "ok"
           /\ Len(device) = expected
           /\ \A i \in DOMAIN device : device[i] = DeviceAction("click", selected, "")

\* a click with count 0 and no button clicked the left button once
C23_Witness ==
    /\ reply # None
    /\ request[1].target = "click"
    /\ request[1].args.count = JInt(0)
    /\ request[1].args.button = Absent
    /\ device = <<DeviceAction("click", "left", "")>>

====
